---- MODULE Spec2Model ----
(***************************************************************************)
(* A model of scripts/forecast.py: run_forecasting loops over the five     *)
(* configured routes; forecast_route splits a route's series 80/20, calls  *)
(* run_sarima, aligns the test predictions, computes the error metrics and *)
(* writes the 7-day forecast CSV; run_forecasting finally writes the       *)
(* summary CSV.                                                            *)
(*                                                                         *)
(* Dates are day numbers.  A series is a sequence of [date, value] records *)
(* with strictly increasing dates (load_dataset sorts the index, dropna    *)
(* removes the missing days).  A predicted value is a record that carries  *)
(* the period it predicts, which the ndarray in the code has lost.         *)
(*                                                                         *)
(* statsmodels, scikit-learn, numpy and pandas are libraries, not code of  *)
(* the repository.  What is modelled of them:                              *)
(*   - SARIMAX(...).fit may raise on any sample (nondeterministic), and    *)
(*     raises on an empty one;                                             *)
(*   - get_prediction(start, end) returns one value per day of the date    *)
(*     range start..end, both ends included;                               *)
(*   - get_forecast(steps) returns the `steps` periods that follow the     *)
(*     end of the sample the model was fitted on;                          *)
(*   - mean_absolute_error / mean_squared_error raise ValueError on inputs *)
(*     of different lengths and on empty inputs;                           *)
(*   - numpy division by zero yields inf (x/0, x # 0) or nan (0/0) and     *)
(*     does not raise;                                                     *)
(*   - os.makedirs / to_csv may raise OSError (nondeterministic).          *)
(***************************************************************************)
EXTENDS Integers, Sequences, FiniteSets, TLC

\* Bounds of the model.
MaxDays == 2        \* days of the dataset when all five routes may be present
MaxDaysRoute == 8   \* days of the dataset when it holds a single route column
MaxLen == 3         \* lengths of the sequences given to align_predictions directly

\* Passenger counts and predicted values of the bounded datasets.
Values == {0, 1}
\* Values given to align_predictions / calculate_error_metrics directly.
AlignValues == {0, 1, 2}

\* Program constants.
seasonal_period == 7
ForecastSteps == 7
CsvPeriods == 7

routes == <<"Local Route", "Light Rail", "Peak Service", "Rapid Route", "School">>

RouteNames == {routes[k] : k \in 1..Len(routes)}

\* A dataset column that is not a configured route.
OtherColumn == "Other"

VARIABLES
    columns,        \* df.columns: the route columns of the loaded dataset
    lastDate,       \* df.index[-1] (0: the dataset has no rows)
    i,              \* position of the for loop in routes
    pc,             \* the statement run_forecasting / forecast_route is at
    err,            \* the exception raised in this run ("none": none)
    series,         \* forecast_route: df[route_name].dropna()
    train,
    test,
    test_pred,
    next_7_days,
    test_aligned,
    pred_aligned,
    metrics,        \* forecast_route: (mae, rmse, mape)
    results,        \* run_forecasting: route -> metrics
    forecastCsv,    \* reports/forecast/<route>/next_7_days_forecast.csv, by route
    summaryCsv,     \* reports/forecast/forecast_summary.csv
    skipped         \* routes reported "not found in dataset", in order

vars == <<columns, lastDate, i, pc, err, series, train, test, test_pred,
          next_7_days, test_aligned, pred_aligned, metrics, results,
          forecastCsv, summaryCsv, skipped>>

locals == <<series, train, test, test_pred, next_7_days, test_aligned,
            pred_aligned, metrics>>

outputs == <<results, forecastCsv, summaryCsv, skipped>>

dataset == <<columns, lastDate>>

----------------------------------------------------------------------------
\* Helpers

Abs(x) == IF x < 0 THEN -x ELSE x

RECURSIVE SumTo(_, _)
SumTo(f, n) == IF n = 0 THEN 0 ELSE f[n] + SumTo(f, n - 1)

RECURSIVE ProdTo(_, _)
ProdTo(f, n) == IF n = 0 THEN 1 ELSE f[n] * ProdTo(f, n - 1)

\* s[from:] of Python, from >= 0
SliceFrom(s, from) == SubSeq(s, from + 1, Len(s))

\* s[:to] of Python, to >= 0
SliceTo(s, to) == SubSeq(s, 1, IF to > Len(s) THEN Len(s) ELSE to)

\* Every series over the days 1..d: any subset of the days (the others are
\* missing and dropped), any value on each.
RECURSIVE SeriesUpTo(_)
SeriesUpTo(d) ==
    IF d = 0 THEN {<<>>}
    ELSE LET prev == SeriesUpTo(d - 1)
         IN  prev \cup {Append(s, [date |-> d, value |-> v]) : s \in prev, v \in Values}

NoMetrics == [MAE |-> [kind |-> "unset", num |-> 0, den |-> 0],
              RMSE |-> [kind |-> "unset", num |-> 0, den |-> 0],
              MAPE |-> [kind |-> "unset", num |-> 0, den |-> 0]]

\* A mapping with no key: results = {}, and no forecast CSV written.
NoEntries == [r \in {} |-> NoMetrics]

NoFile == [written |-> FALSE, rows |-> NoEntries]

----------------------------------------------------------------------------
\* align_predictions

align_predictions(t, predictions) ==
    IF Len(predictions) > Len(t)
    THEN <<t, SliceFrom(predictions, 1)>>
    ELSE IF Len(predictions) < Len(t)
         THEN <<SliceFrom(t, 1), predictions>>
         ELSE <<t, predictions>>

----------------------------------------------------------------------------
\* calculate_error_metrics

\* sklearn's validation of (y_true, y_pred): ValueError on inconsistent
\* lengths and on empty arrays.
SklearnRejects(y_true, y_pred) ==
    Len(y_true) # Len(y_pred) \/ Len(y_true) = 0

\* mean(|y_true - y_pred|), as the ratio num/den
mean_absolute_error(y_true, y_pred) ==
    LET n == Len(y_true)
    IN  [kind |-> "finite",
         num |-> SumTo([k \in 1..n |-> Abs(y_true[k].value - y_pred[k].value)], n),
         den |-> n]

\* mean((y_true - y_pred)^2), as the ratio num/den
mean_squared_error(y_true, y_pred) ==
    LET n == Len(y_true)
        d == [k \in 1..n |-> y_true[k].value - y_pred[k].value]
    IN  [kind |-> "finite", num |-> SumTo([k \in 1..n |-> d[k] * d[k]], n), den |-> n]

\* np.sqrt of a finite non-negative ratio is finite: the record keeps the
\* radicand num/den.
Sqrt(x) == [kind |-> x.kind, num |-> x.num, den |-> x.den]

\* mape_of leaving the elements with y_true = 0 out of the mean.
mape_masked(y_true, y_pred) ==
    LET n == Len(y_true)
        a == [k \in 1..n |-> IF y_true[k].value = 0 THEN 1 ELSE Abs(y_true[k].value)]
        d == [k \in 1..n |-> IF y_true[k].value = 0 THEN 0
                              ELSE Abs(y_true[k].value - y_pred[k].value)]
        others(k) == ProdTo([j \in 1..n |-> IF j = k THEN 1 ELSE a[j]], n)
    IN  [kind |-> "finite",
         num |-> 100 * SumTo([k \in 1..n |-> d[k] * others(k)], n),
         den |-> n * ProdTo(a, n)]

\* np.mean(np.abs((y_true - y_pred) / y_true)) * 100.  An element with
\* y_true = 0 is nan when y_true - y_pred = 0 and inf otherwise; the mean is
\* nan if any element is nan, else inf if any element is inf, else the ratio
\* num/den over the common denominator.
mape_of(y_true, y_pred) ==
    LET n == Len(y_true)
        a == [k \in 1..n |-> y_true[k].value]
        d == [k \in 1..n |-> Abs(y_true[k].value - y_pred[k].value)]
        others(k) == ProdTo([j \in 1..n |-> IF j = k THEN 1 ELSE Abs(a[j])], n)
    IN  IF \E k \in 1..n : a[k] = 0 /\ d[k] = 0
        THEN [kind |-> "nan", num |-> 0, den |-> 0]
        ELSE IF \E k \in 1..n : a[k] = 0
             THEN [kind |-> "inf", num |-> 0, den |-> 0]
             ELSE [kind |-> "finite",
                   num |-> 100 * SumTo([k \in 1..n |-> d[k] * others(k)], n),
                   den |-> n * ProdTo([k \in 1..n |-> Abs(a[k])], n)]

calculate_error_metrics(y_true, y_pred) ==
    [MAE |-> mean_absolute_error(y_true, y_pred),
     RMSE |-> Sqrt(mean_squared_error(y_true, y_pred)),
     MAPE |-> mape_of(y_true, y_pred)]

----------------------------------------------------------------------------
\* run_sarima

\* results.get_prediction(start, end).predicted_mean.values: one value per
\* day of start..end.
PredictedMean(start, end) ==
    LET n == end - start + 1
    IN  {[k \in 1..n |-> [period |-> start + k - 1, value |-> v[k]]] :
            v \in [1..n -> Values]}

\* results.get_forecast(steps).predicted_mean.values: the steps periods after
\* the end of the fitted sample.
GetForecast(sample, steps) ==
    [k \in 1..steps |-> [period |-> sample[Len(sample)].date + k]]

----------------------------------------------------------------------------
\* forecast_route

\* split_index rounding to the nearest integer instead of truncating.
split_index_rounded(s) == (Len(s) * 8 + 5) \div 10

split_index(s) == (Len(s) * 8) \div 10

\* pd.date_range(start=df.index[-1] + 1 day, periods=7)
date_range(start, periods) == [k \in 1..periods |-> start + k - 1]

----------------------------------------------------------------------------
\* A statement raises: the exception is in flight.
Raise(e) ==
    /\ pc' = "raised"
    /\ err' = e

\* Unhandled with the exception caught and logged in the loop.
Contained ==
    /\ pc = "raised"
    /\ pc' = "loop"
    /\ i' = i + 1
    /\ UNCHANGED <<dataset, err, locals, outputs>>

\* run_forecasting has no try/except around forecast_route or the summary
\* write: the exception leaves the for loop and the function, and the run
\* ends with the traceback.
Unhandled ==
    /\ pc = "raised"
    /\ pc' = "aborted"
    /\ UNCHANGED <<dataset, i, err, locals, outputs>>

\* for route in routes: if route in df.columns: forecast_route(route, df),
\* up to the split.
ForecastRoute ==
    /\ pc = "loop"
    /\ i <= Len(routes)
    /\ routes[i] \in columns
    /\ \E s \in SeriesUpTo(lastDate) :
        /\ series' = s
        /\ train' = SliceTo(s, split_index(s))
        /\ test' = SliceFrom(s, split_index(s))
    /\ pc' = "run_sarima"
    /\ UNCHANGED <<dataset, i, err, test_pred, next_7_days, test_aligned,
                   pred_aligned, metrics, outputs>>

\* SkipRoute leaving the loop at the first missing route.
SkipRouteBreak ==
    /\ pc = "loop"
    /\ i <= Len(routes)
    /\ routes[i] \notin columns
    /\ skipped' = Append(skipped, routes[i])
    /\ i' = Len(routes) + 1
    /\ UNCHANGED <<dataset, pc, err, locals, results, forecastCsv, summaryCsv>>

\* else: print("Column not found")
SkipRoute ==
    /\ pc = "loop"
    /\ i <= Len(routes)
    /\ routes[i] \notin columns
    /\ skipped' = Append(skipped, routes[i])
    /\ i' = i + 1
    /\ UNCHANGED <<dataset, pc, err, locals, results, forecastCsv, summaryCsv>>

\* RunSarima refusing a sample of fewer than 2 * seasonal_period observations.
RunSarimaGuarded ==
    /\ pc = "run_sarima"
    /\ \/ /\ Raise("LibraryError")
          /\ UNCHANGED <<test_pred, next_7_days>>
       \/ /\ Len(train) < 2 * seasonal_period
          /\ Raise("ModelFitError")
          /\ UNCHANGED <<test_pred, next_7_days>>
       \/ /\ Len(train) >= 2 * seasonal_period
          /\ Len(test) > 0
          /\ \E tp \in PredictedMean(test[1].date, test[Len(test)].date) :
                test_pred' = tp
          /\ next_7_days' = GetForecast(train, ForecastSteps)
          /\ pc' = "align"
          /\ UNCHANGED err
    /\ UNCHANGED <<dataset, i, series, train, test, test_aligned, pred_aligned,
                   metrics, outputs>>

\* test_pred, next_7_days = run_sarima(train, test)
RunSarima ==
    /\ pc = "run_sarima"
    /\ \/ /\ Raise("LibraryError")
          /\ UNCHANGED <<test_pred, next_7_days>>
       \/ /\ Len(train) > 0
          /\ Len(test) > 0
          /\ \E tp \in PredictedMean(test[1].date, test[Len(test)].date) :
                test_pred' = tp
          /\ next_7_days' = GetForecast(train, ForecastSteps)
          /\ pc' = "align"
          /\ UNCHANGED err
    /\ UNCHANGED <<dataset, i, series, train, test, test_aligned, pred_aligned,
                   metrics, outputs>>

\* test_aligned, pred_aligned = align_predictions(test, test_pred)
AlignPredictions ==
    /\ pc = "align"
    /\ test_aligned' = align_predictions(test, test_pred)[1]
    /\ pred_aligned' = align_predictions(test, test_pred)[2]
    /\ pc' = "metrics"
    /\ UNCHANGED <<dataset, i, err, series, train, test, test_pred, next_7_days,
                   metrics, outputs>>

\* CalculateErrorMetrics with means that accept empty arrays.
CalculateErrorMetricsUnchecked ==
    /\ pc = "metrics"
    /\ IF Len(test_aligned) # Len(pred_aligned)
       THEN /\ Raise("ValueError")
            /\ UNCHANGED metrics
       ELSE /\ metrics' = calculate_error_metrics(test_aligned, pred_aligned)
            /\ pc' = "save"
            /\ UNCHANGED err
    /\ UNCHANGED <<dataset, i, series, train, test, test_pred, next_7_days,
                   test_aligned, pred_aligned, outputs>>

\* mae, rmse, mape = calculate_error_metrics(test_aligned, pred_aligned)
CalculateErrorMetrics ==
    /\ pc = "metrics"
    /\ IF SklearnRejects(test_aligned, pred_aligned)
       THEN /\ Raise("ValueError")
            /\ UNCHANGED metrics
       ELSE /\ metrics' = calculate_error_metrics(test_aligned, pred_aligned)
            /\ pc' = "save"
            /\ UNCHANGED err
    /\ UNCHANGED <<dataset, i, series, train, test, test_pred, next_7_days,
                   test_aligned, pred_aligned, outputs>>

\* ensure_directory(save_path); forecast_df = ...; forecast_df.to_csv(...)
SaveForecast ==
    /\ pc = "save"
    /\ \/ /\ Raise("OSError")
          /\ UNCHANGED forecastCsv
       \/ /\ forecastCsv' =
                [r \in DOMAIN forecastCsv \cup {routes[i]} |->
                    IF r = routes[i]
                    THEN [Date |-> date_range(lastDate + 1, CsvPeriods),
                          Forecast |-> next_7_days]
                    ELSE forecastCsv[r]]
          /\ pc' = "return"
          /\ UNCHANGED err
    /\ UNCHANGED <<dataset, i, locals, results, summaryCsv, skipped>>

\* ReturnMetrics rebinding results to a mapping of the one route.
ReturnMetricsRebinds ==
    /\ pc = "return"
    /\ results' = [r \in {routes[i]} |-> metrics]
    /\ i' = i + 1
    /\ pc' = "loop"
    /\ series' = <<>>
    /\ train' = <<>>
    /\ test' = <<>>
    /\ test_pred' = <<>>
    /\ next_7_days' = <<>>
    /\ test_aligned' = <<>>
    /\ pred_aligned' = <<>>
    /\ metrics' = NoMetrics
    /\ UNCHANGED <<dataset, err, forecastCsv, summaryCsv, skipped>>

\* return {"MAE": mae, "RMSE": rmse, "MAPE": mape}; results[route] = metrics
ReturnMetrics ==
    /\ pc = "return"
    /\ results' = [r \in DOMAIN results \cup {routes[i]} |->
                      IF r = routes[i] THEN metrics ELSE results[r]]
    /\ i' = i + 1
    /\ pc' = "loop"
    /\ series' = <<>>
    /\ train' = <<>>
    /\ test' = <<>>
    /\ test_pred' = <<>>
    /\ next_7_days' = <<>>
    /\ test_aligned' = <<>>
    /\ pred_aligned' = <<>>
    /\ metrics' = NoMetrics
    /\ UNCHANGED <<dataset, err, forecastCsv, summaryCsv, skipped>>

\* SaveSummary indented into the loop: the summary is written at every
\* iteration.
SaveSummaryInLoop ==
    /\ pc = "loop"
    /\ \/ /\ Raise("OSError")
          /\ UNCHANGED summaryCsv
       \/ /\ summaryCsv' = [written |-> TRUE, rows |-> results]
          /\ pc' = IF i > Len(routes) THEN "done" ELSE "loop"
          /\ UNCHANGED err
    /\ UNCHANGED <<dataset, i, locals, results, forecastCsv, skipped>>

\* ensure_directory("reports/forecast"); pd.DataFrame(results).T.to_csv(...)
SaveSummary ==
    /\ pc = "loop"
    /\ i > Len(routes)
    /\ \/ /\ Raise("OSError")
          /\ UNCHANGED summaryCsv
       \/ /\ summaryCsv' = [written |-> TRUE, rows |-> results]
          /\ pc' = "done"
          /\ UNCHANGED err
    /\ UNCHANGED <<dataset, i, locals, results, forecastCsv, skipped>>

----------------------------------------------------------------------------
\* The state after run_forecasting has loaded the dataset and set results = {}.
InitRun ==
    /\ i = 1
    /\ pc = "loop"
    /\ err = "none"
    /\ series = <<>>
    /\ train = <<>>
    /\ test = <<>>
    /\ test_pred = <<>>
    /\ next_7_days = <<>>
    /\ test_aligned = <<>>
    /\ pred_aligned = <<>>
    /\ metrics = NoMetrics
    /\ results = NoEntries
    /\ forecastCsv = NoEntries
    /\ summaryCsv = NoFile
    /\ skipped = <<>>

\* Any subset of the configured routes beside a column that is none of them,
\* a dataset of up to MaxDays days.
Init ==
    /\ columns \in {S \cup {OtherColumn} : S \in SUBSET RouteNames}
    /\ lastDate \in 0..MaxDays
    /\ InitRun

Next ==
    \/ ForecastRoute
    \/ SkipRoute
    \/ RunSarima
    \/ AlignPredictions
    \/ CalculateErrorMetrics
    \/ SaveForecast
    \/ ReturnMetrics
    \/ SaveSummary
    \/ Unhandled

Spec == Init /\ [][Next]_vars

\* A dataset with one configured route column, of up to MaxDaysRoute days.
InitRoute ==
    /\ columns = {routes[Len(routes)], OtherColumn}
    /\ lastDate \in 0..MaxDaysRoute
    /\ InitRun

SpecRoute == InitRoute /\ [][Next]_vars

\* align_predictions and calculate_error_metrics on arbitrary inputs.
RECURSIVE SeqsUpTo(_, _)
SeqsUpTo(S, n) ==
    IF n = 0 THEN {<<>>}
    ELSE LET prev == SeqsUpTo(S, n - 1)
         IN  prev \cup {Append(s, x) : s \in {t \in prev : Len(t) = n - 1}, x \in S}

AlignTests ==
    {[k \in 1..Len(s) |-> [date |-> k, value |-> s[k]]] : s \in SeqsUpTo(AlignValues, MaxLen)}

AlignPreds ==
    {[k \in 1..Len(s) |-> [period |-> k, value |-> s[k]]] : s \in SeqsUpTo(AlignValues, MaxLen)}

InitAlign ==
    /\ columns = {routes[1]}
    /\ lastDate = 0
    /\ i = 1
    /\ pc = "align"
    /\ err = "none"
    /\ series = <<>>
    /\ train = <<>>
    /\ test \in AlignTests
    /\ test_pred \in AlignPreds
    /\ next_7_days = <<>>
    /\ test_aligned = <<>>
    /\ pred_aligned = <<>>
    /\ metrics = NoMetrics
    /\ results = NoEntries
    /\ forecastCsv = NoEntries
    /\ summaryCsv = NoFile
    /\ skipped = <<>>

NextAlign ==
    \/ AlignPredictions
    \/ CalculateErrorMetrics
    \/ Unhandled

SpecAlign == InitAlign /\ [][NextAlign]_vars

----------------------------------------------------------------------------
\* Properties of align_predictions (SpecAlign)

\* align_predictions has returned.
Aligned == pc # "align"

Max(a, b) == IF a > b THEN a ELSE b

\* C1: for every actual series of length M >= 0 and every predicted array of
\* length K >= 0, also when |K - M| > 1, the two sequences align_predictions
\* returns have equal length.
C1_AlignedLengthsEqual ==
    Aligned => Len(test_aligned) = Len(pred_aligned)

\* C2: align_predictions drops exactly max(K - M, 0) leading predictions and
\* exactly max(M - K, 0) leading actual values, and nothing from the back: the
\* results are the last min(K, M) elements of each input.
C2_DropsExactDifference ==
    Aligned =>
        LET K == Len(test_pred)
            M == Len(test)
        IN  /\ pred_aligned = SliceFrom(test_pred, Max(K - M, 0))
            /\ test_aligned = SliceFrom(test, Max(M - K, 0))

----------------------------------------------------------------------------
\* Properties of run_forecasting (Spec)

\* forecast_route raised while processing routes[i].
RouteFailed == err # "none" /\ i <= Len(routes)

RunEnded == pc \in {"done", "aborted"}

Written(file) == DOMAIN file

\* C3 (as stated): a route's failure does not abort the run: when the run has
\* ended after a route raised, the summary CSV is written, omits the failed
\* route, and every later configured route present in the dataset has been
\* processed.
C3_RouteFailureContained ==
    (RunEnded /\ RouteFailed) =>
        /\ summaryCsv.written
        /\ routes[i] \notin Written(summaryCsv.rows)
        /\ \A j \in (i + 1)..Len(routes) :
                routes[j] \in columns => routes[j] \in Written(summaryCsv.rows)

\* C3 (amended): a route's failure aborts the run: the exception is not
\* caught, the failed route and every later route have no summary entry, no
\* later route is processed or skipped, the summary CSV is not written, and
\* the routes before it keep their entries and their forecast CSVs.
C3_RouteFailureAbortsRun ==
    RouteFailed =>
        /\ pc \in {"raised", "aborted"}
        /\ ~summaryCsv.written
        /\ routes[i] \in columns
        /\ routes[i] \notin Written(results)
        /\ \A j \in (i + 1)..Len(routes) :
                /\ routes[j] \notin Written(results)
                /\ routes[j] \notin Written(forecastCsv)
                /\ \A k \in 1..Len(skipped) : skipped[k] # routes[j]
        /\ \A j \in 1..(i - 1) :
                routes[j] \in columns =>
                    routes[j] \in Written(results) /\ routes[j] \in Written(forecastCsv)

\* A run aborted by a route that has processed routes before it and present
\* routes after it.
C3_Witness ==
    /\ pc = "aborted"
    /\ RouteFailed
    /\ \E j \in 1..(i - 1) : routes[j] \in Written(results)
    /\ \E j \in (i + 1)..Len(routes) : routes[j] \in columns

\* C4: missing configured routes are skipped without failing, and when every
\* present route is processed without error the routes of the summary are
\* exactly the configured routes present in the dataset.
C4_SummaryIsPresentRoutes ==
    /\ RouteFailed => routes[i] \in columns
    /\ \A k \in 1..Len(skipped) : skipped[k] \in RouteNames \ columns
    /\ pc = "done" =>
        /\ summaryCsv.written
        /\ Written(summaryCsv.rows) = RouteNames \cap columns
        /\ {skipped[k] : k \in 1..Len(skipped)} = RouteNames \ columns

\* School is missing, the other four routes are in the summary.
C4_Witness ==
    /\ pc = "done"
    /\ columns = (RouteNames \ {"School"}) \cup {OtherColumn}
    /\ Written(summaryCsv.rows) = RouteNames \ {"School"}
    /\ skipped = <<"School">>

\* The routes before the loop position are settled (processed or skipped),
\* the one at it has no summary entry yet, the ones after it are untouched;
\* between two routes no local of forecast_route is live.
C10_Settled ==
    /\ i \in 1..(Len(routes) + 1)
    /\ \A j \in 1..Len(routes) :
        /\ j < i =>
            /\ routes[j] \in Written(results) <=> routes[j] \in columns
            /\ routes[j] \in Written(forecastCsv) <=> routes[j] \in columns
            /\ routes[j] \notin columns => \E k \in 1..Len(skipped) : skipped[k] = routes[j]
        /\ j = i =>
            /\ routes[j] \notin Written(results)
            /\ routes[j] \in Written(forecastCsv) => pc \in {"return", "raised", "aborted"}
        /\ j > i =>
            /\ routes[j] \notin Written(results)
            /\ routes[j] \notin Written(forecastCsv)
    /\ pc = "loop" => series = <<>> /\ test_pred = <<>> /\ metrics = NoMetrics

\* One step of the run: the loop position stays or moves to the next route,
\* and every entry of the summary mapping and every forecast CSV is kept as
\* it is.
C10_Grows ==
    /\ i' \in {i, i + 1}
    /\ \A r \in Written(results) : r \in Written(results') /\ results'[r] = results[r]
    /\ \A r \in Written(forecastCsv) :
            r \in Written(forecastCsv') /\ forecastCsv'[r] = forecastCsv[r]

\* C10: routes are processed one at a time in the configured order: route i's
\* forecast CSV and summary entry are complete before any step of route i+1,
\* and an entry of the summary mapping, once added, is never modified or
\* removed.
C10_SequentialInOrder == []C10_Settled /\ [][C10_Grows]_vars

\* The last route is being processed after two earlier ones got their entries.
C10_Witness ==
    /\ i = Len(routes)
    /\ pc = "align"
    /\ routes[1] \in Written(results)
    /\ routes[4] \in Written(results)
    /\ routes[4] \in Written(forecastCsv)

----------------------------------------------------------------------------
\* Properties of forecast_route (SpecRoute)

\* C5 (as stated): a written forecast CSV holds exactly 7 forecast values
\* beside the 7 consecutive days that follow the dataset's last date, and
\* each value is the model's prediction for the day written next to it: the
\* forecast origin is the end of the full series.
C5_ForecastIsNextSevenDays ==
    \A r \in Written(forecastCsv) :
        LET f == forecastCsv[r]
        IN  /\ Len(f.Forecast) = 7
            /\ Len(f.Date) = 7
            /\ \A k \in 1..7 :
                    /\ f.Date[k] = lastDate + k
                    /\ f.Forecast[k].period = f.Date[k]

\* C6: the split is chronological and lossless: train is the first
\* floor(0.8 N) observations, test the other N - floor(0.8 N), train followed
\* by test is the series, every train date precedes every test date, train is
\* non-empty when N >= 2 and test is non-empty when N >= 1.
C6_SplitChronologicalLossless ==
    LET N == Len(series)
    IN  /\ Len(train) = (4 * N) \div 5
        /\ Len(test) = N - (4 * N) \div 5
        /\ train \o test = series
        /\ \A a \in 1..Len(train) : \A b \in 1..Len(test) : train[a].date < test[b].date
        /\ N >= 2 => Len(train) >= 1
        /\ N >= 1 => Len(test) >= 1

\* A series of 7 observations split 5 / 2.
C6_Witness ==
    /\ pc = "run_sarima"
    /\ Len(series) = 7
    /\ Len(train) = 5
    /\ Len(test) = 2

Finite(x) == x.kind = "finite" /\ x.den > 0 /\ x.num >= 0

HasZero(y_true) == \E k \in 1..Len(y_true) : y_true[k].value = 0

\* C7: a zero actual value never makes calculate_error_metrics raise: it
\* raises only on inputs of different lengths or of length 0; on equal-length
\* inputs of length >= 1 MAE and RMSE are finite, and MAPE is non-finite (inf
\* or nan) exactly when some actual value is 0; the metrics of such a route
\* are entered in the summary like any other.
C7_ZeroActualGivesSentinel ==
    /\ err = "ValueError" =>
            Len(test_aligned) # Len(pred_aligned) \/ Len(test_aligned) = 0
    /\ metrics # NoMetrics =>
        /\ Len(test_aligned) = Len(pred_aligned)
        /\ Len(test_aligned) >= 1
        /\ Finite(metrics.MAE)
        /\ Finite(metrics.RMSE)
        /\ HasZero(test_aligned) => metrics.MAPE.kind \in {"inf", "nan"}
        /\ ~HasZero(test_aligned) => Finite(metrics.MAPE)
    /\ pc = "return" => metrics # NoMetrics
    /\ \A r \in Written(results) :
        /\ Finite(results[r].MAE)
        /\ Finite(results[r].RMSE)
        /\ Finite(results[r].MAPE) \/ results[r].MAPE.kind \in {"inf", "nan"}
    /\ summaryCsv.written => summaryCsv.rows = results

\* The summary is written with the row of a route whose metrics were computed
\* on a test series holding a 0 (its MAPE is the sentinel).
C7_Witness ==
    /\ summaryCsv.written
    /\ \E r \in Written(summaryCsv.rows) :
        /\ summaryCsv.rows[r].MAPE.kind = "nan"
        /\ Finite(summaryCsv.rows[r].MAE)

\* run_sarima is over for routes[i].
SarimaOver == i <= Len(routes) /\ pc \notin {"loop", "run_sarima"}

\* C9 (as stated): a series of fewer than 2 * seasonal_period observations is
\* refused: run_sarima fails with ModelFitError and returns neither test
\* predictions nor a forecast.
C9_ShortHistoryRefused ==
    (SarimaOver /\ Len(train) < 2 * seasonal_period) =>
        /\ err = "ModelFitError"
        /\ test_pred = <<>>
        /\ next_7_days = <<>>

\* C9 (amended): run_sarima checks no history length and never raises
\* ModelFitError: it fails only when the library call raises, and then the
\* route has no forecast CSV and no summary entry and no summary is written;
\* when the library returns, also on fewer than 2 * seasonal_period
\* observations, it returns test predictions and exactly 7 forecast values.
C9_NoHistoryLengthCheck ==
    /\ err # "ModelFitError"
    /\ err = "LibraryError" =>
        /\ test_pred = <<>>
        /\ next_7_days = <<>>
        /\ routes[i] \notin Written(forecastCsv)
        /\ routes[i] \notin Written(results)
        /\ ~summaryCsv.written
    /\ (SarimaOver /\ err # "LibraryError") =>
        /\ Len(train) >= 1
        /\ Len(test_pred) >= 1
        /\ Len(next_7_days) = 7

\* A route of fewer than 2 * seasonal_period observations whose forecast CSV
\* is written.
C9_Witness ==
    /\ pc = "return"
    /\ Len(train) >= 3
    /\ Len(train) < 2 * seasonal_period
    /\ Len(next_7_days) = 7
    /\ routes[i] \in Written(forecastCsv)

----------------------------------------------------------------------------
\* Properties of align_predictions with calculate_error_metrics (SpecAlign)

\* C8 (as stated): when alignment yields sequences of length 0 the aligner
\* signals AlignmentError instead of returning.
C8_EmptyAlignmentSignalled ==
    (Aligned /\ Len(test_aligned) = 0 /\ Len(pred_aligned) = 0) =>
        err = "AlignmentError"

\* C8 (amended): align_predictions signals nothing: when a sequence it returns
\* is empty, it returns, and calculate_error_metrics then raises ValueError,
\* so that no error metrics are computed on empty sequences.
C8_EmptyAlignmentRejectedByMetrics ==
    /\ pc = "metrics" => err = "none"
    /\ (Aligned /\ (Len(test_aligned) = 0 \/ Len(pred_aligned) = 0)) =>
        /\ metrics = NoMetrics
        /\ pc \in {"metrics", "raised", "aborted"}
        /\ pc # "metrics" => err = "ValueError"
    /\ metrics # NoMetrics => Len(test_aligned) >= 1 /\ Len(pred_aligned) >= 1

\* One actual value against no prediction: both results are empty and the
\* metrics raise.
C8_Witness ==
    /\ pc = "aborted"
    /\ err = "ValueError"
    /\ Len(test) = 1
    /\ Len(test_pred) = 0
    /\ test_aligned = <<>>
    /\ pred_aligned = <<>>

----------------------------------------------------------------------------
\* Order of the outputs of one run (Spec)

\* The forecast CSV of the route being processed exists only once its error
\* metrics are computed; the summary CSV exists only when the loop is past
\* the last configured route, each route processed or skipped, and no
\* exception raised in a route; after a route raised there is no summary CSV,
\* while the routes processed before it have their forecast CSVs.
C11_Ordered ==
    /\ (i <= Len(routes) /\ routes[i] \in Written(forecastCsv)) =>
            metrics # NoMetrics
    /\ summaryCsv.written =>
        /\ pc = "done"
        /\ i = Len(routes) + 1
        /\ err = "none"
        /\ \A j \in 1..Len(routes) :
                \/ routes[j] \in Written(results) /\ routes[j] \in Written(forecastCsv)
                \/ \E k \in 1..Len(skipped) : skipped[k] = routes[j]
    /\ RouteFailed =>
        /\ ~summaryCsv.written
        /\ \A j \in 1..(i - 1) :
                routes[j] \in columns => routes[j] \in Written(forecastCsv)

\* A step that writes a file: a forecast CSV is written by the save statement
\* of the current route, with its metrics computed; the summary CSV is written
\* from the loop's exit, and no file is written once an exception is raised.
C11_WriteStep ==
    /\ Written(forecastCsv') # Written(forecastCsv) =>
        /\ pc = "save"
        /\ metrics # NoMetrics
        /\ Written(forecastCsv') = Written(forecastCsv) \cup {routes[i]}
    /\ summaryCsv' # summaryCsv =>
        /\ pc = "loop"
        /\ i > Len(routes)
        /\ err = "none"
    /\ err # "none" => forecastCsv' = forecastCsv /\ summaryCsv' = summaryCsv

\* C11: a route's forecast CSV is written only after that route's error
\* metrics are computed, the summary CSV only after every configured route is
\* processed or skipped; in a run where a route raises no summary CSV is
\* written, though the forecast CSVs of the routes before it are.
C11_OutputOrder == []C11_Ordered /\ [][C11_WriteStep]_vars

\* A run aborted by the save of a later route: its metrics are computed, an
\* earlier route's forecast CSV is written, the summary CSV is not.
C11_Witness ==
    /\ pc = "aborted"
    /\ err = "OSError"
    /\ i \in 2..Len(routes)
    /\ metrics # NoMetrics
    /\ routes[i] \notin Written(forecastCsv)
    /\ \E j \in 1..(i - 1) : routes[j] \in Written(forecastCsv)
    /\ ~summaryCsv.written

====
